---- MODULE Spec2Model ----
(***************************************************************************)
(* Model of dependency_graph/dependency_graph.py: Node, Edge and           *)
(* DirectedGraph (add_node, add_edge, find_paths, dump, create_plan).      *)
(*                                                                         *)
(* A Node is identified by its name: DirectedGraph.nodes holds one Node    *)
(* object per name and Node defines no __eq__, so object identity and name *)
(* coincide inside one graph.  Python lists are sequences; where the code  *)
(* computes with 0-based list indexes the model keeps the 0-based numbers  *)
(* and reads element i of a list as list[i + 1].                           *)
(***************************************************************************)
EXTENDS Integers, Sequences, FiniteSets, TLC

\* Bounds of the model.  Spec interleaves mutations and queries freely on
\* graphs of at most MaxNodes nodes and MaxEdges edges; SpecBuilt builds a
\* graph of at most BuiltNodes nodes and BuiltEdges edges and then queries it.
MaxNodes == 3
MaxEdges == 3
BuiltNodes == 4
BuiltEdges == 4
\* Depth of the interpreter's call stack (sys.getrecursionlimit(), 1000 by
\* default), scaled down.
RecursionLimit == 4

Max(S) == CHOOSE m \in S : \A k \in S : k <= m

Min(S) == CHOOSE m \in S : \A k \in S : m <= k

VARIABLES
    nodes,           \* DirectedGraph.nodes: the names, in dict insertion order
    edges,           \* Node.edges, per node
    outgoing_edges,  \* Node.outgoing_edges, per node (weak references, dereferenced)
    incoming_edges,  \* Node.incoming_edges, per node
    depends_on,      \* Node._depends_on, per node
    paths,           \* DirectedGraph.paths
    cache_dirty,     \* DirectedGraph._cache_dirty
    op,              \* the last call made on the graph
    status,          \* how that call ended: "ok" or the exception it raised
    ret,             \* what that call returned (<<>> when it returns nothing)
    traversals,      \* depth-first traversals started during that call
    dumps            \* graph reports dump() printed during that call

vars == << nodes, edges, outgoing_edges, incoming_edges, depends_on, paths,
           cache_dirty, op, status, ret, traversals, dumps >>

\* The names a Node may carry.  Names are opaque dict keys: they are numbered
\* and new nodes take them in increasing order.
NodeNames == DOMAIN edges

----------------------------------------------------------------------------
\* Python list helpers.

SeqToSet(s) == { s[i] : i \in DOMAIN s }

InList(s, x) == \E i \in DOMAIN s : s[i] = x

\* list.insert(idx, x): idx beyond the end appends.
ListInsert(list, idx, x) ==
    LET k == Min({idx, Len(list)})
    IN  SubSeq(list, 1, k) \o << x >> \o SubSeq(list, k + 1, Len(list))

\* list.remove(x): drops the first element equal to x.
ListRemove(list, x) ==
    LET first == Min({ i \in DOMAIN list : list[i] = x })
    IN  SubSeq(list, 1, first - 1) \o SubSeq(list, first + 1, Len(list))

----------------------------------------------------------------------------
\* Edge

Edge(from_node, to_node) == [from_node |-> from_node, to_node |-> to_node]

\* Faulty variant of Edge.__eq__: the direction of the edge is respected.
EdgeEqDirected(self, other) ==
    self.from_node = other.from_node /\ self.to_node = other.to_node

\* Edge.__eq__: same pair of endpoints, in either direction.
EdgeEq(self, other) ==
    \/ self.from_node = other.from_node /\ self.to_node = other.to_node
    \/ self.from_node = other.to_node /\ self.to_node = other.from_node

\* Edge.is_incoming_edge(node) for an edge connected to node.
IsIncomingEdge(edge, node) == edge.to_node = node

----------------------------------------------------------------------------
\* Node

\* Faulty variant of Node.has_edge: only the outgoing list is searched.
HasEdgeOutgoingOnly(el, other_edge) ==
    \E i \in DOMAIN el.outgoing : EdgeEq(other_edge, el.outgoing[i])

\* Node.has_edge, on the node's edge lists el = [edges, outgoing, incoming].
HasEdge(el, other_edge) ==
    \E i \in DOMAIN el.edges : EdgeEq(other_edge, el.edges[i])

\* Node.has_incoming_edges
HasIncomingEdges(node) ==
    \E i \in DOMAIN edges[node] : IsIncomingEdge(edges[node][i], node)

\* Node.add_edge on node self with edge lists el: raises (ok = FALSE, lists
\* untouched) when an equal edge is present, else appends to edges and to
\* the outgoing or the incoming list.
NodeAddEdge(self, el, edge) ==
    IF HasEdge(el, edge)
    THEN [ok |-> FALSE, el |-> el]
    ELSE [ok |-> TRUE,
          el |-> IF edge.from_node = self
                 THEN [edges    |-> Append(el.edges, edge),
                       outgoing |-> Append(el.outgoing, edge),
                       incoming |-> el.incoming]
                 ELSE [edges    |-> Append(el.edges, edge),
                       outgoing |-> el.outgoing,
                       incoming |-> Append(el.incoming, edge)]]

\* Faulty variant of Node.__lt__: the comparison is reversed.
NodeLtReversed(D, self, other) ==
    IF self = other THEN FALSE ELSE self \in D[other]

\* Node.__lt__ over dependency sets D: self depends on other.
NodeLt(D, self, other) ==
    IF self = other THEN FALSE ELSE other \in D[self]

----------------------------------------------------------------------------
\* DirectedGraph.__init__

\* Faulty variant: the cache flag starts clean, so the memo is served.
CacheDirtyClean == FALSE

\* self._cache_dirty = True, the only assignment to the flag.
CacheDirtyInit == TRUE

InitGraph(max_nodes) ==
    /\ nodes = << >>
    /\ edges = [n \in 1 .. max_nodes |-> << >>]
    /\ outgoing_edges = [n \in 1 .. max_nodes |-> << >>]
    /\ incoming_edges = [n \in 1 .. max_nodes |-> << >>]
    /\ depends_on = [n \in 1 .. max_nodes |-> {}]
    /\ paths = << >>
    /\ cache_dirty = CacheDirtyInit
    /\ op = "init"
    /\ status = "ok"
    /\ ret = << >>
    /\ traversals = 0
    /\ dumps = 0

----------------------------------------------------------------------------
\* DirectedGraph.add_node: Node(name, data) is a fresh node with empty lists.

AddNode(name) ==
    /\ op' = "add_node"
    /\ ret' = << >>
    /\ traversals' = 0
    /\ dumps' = 0
    /\ UNCHANGED << edges, outgoing_edges, incoming_edges, depends_on, paths,
                    cache_dirty >>
    /\ IF InList(nodes, name)
       THEN /\ status' = "DuplicateNode"
            /\ nodes' = nodes
       ELSE /\ status' = "ok"
            /\ nodes' = Append(nodes, name)

----------------------------------------------------------------------------
\* DirectedGraph.add_edge

EdgeLists(n) ==
    [edges |-> edges[n], outgoing |-> outgoing_edges[n],
     incoming |-> incoming_edges[n]]

\* Number of edges registered in the graph.
EdgeCount ==
    Cardinality(UNION { SeqToSet(outgoing_edges[n]) : n \in NodeNames })

AddEdge(from_node_key, to_node_key) ==
    /\ op' = "add_edge"
    /\ ret' = << >>
    /\ traversals' = 0
    /\ dumps' = 0
    /\ UNCHANGED << nodes, depends_on, paths, cache_dirty >>
    /\ IF from_node_key = to_node_key
       THEN /\ status' = "SelfLoop"
            /\ UNCHANGED << edges, outgoing_edges, incoming_edges >>
       ELSE IF ~InList(nodes, from_node_key) \/ ~InList(nodes, to_node_key)
       THEN /\ status' = "UnknownNode"
            /\ UNCHANGED << edges, outgoing_edges, incoming_edges >>
       ELSE LET new_edge == Edge(from_node_key, to_node_key)
                r1 == NodeAddEdge(from_node_key, EdgeLists(from_node_key), new_edge)
                r2 == NodeAddEdge(to_node_key, EdgeLists(to_node_key), new_edge)
            IN  IF ~r1.ok
                THEN /\ status' = "DuplicateRelation"
                     /\ UNCHANGED << edges, outgoing_edges, incoming_edges >>
                ELSE IF ~r2.ok
                THEN /\ status' = "DuplicateRelation"
                     /\ edges' = [edges EXCEPT ![from_node_key] = r1.el.edges]
                     /\ outgoing_edges' =
                            [outgoing_edges EXCEPT ![from_node_key] = r1.el.outgoing]
                     /\ incoming_edges' =
                            [incoming_edges EXCEPT ![from_node_key] = r1.el.incoming]
                ELSE /\ status' = "ok"
                     /\ edges' = [edges EXCEPT ![from_node_key] = r1.el.edges,
                                               ![to_node_key] = r2.el.edges]
                     /\ outgoing_edges' =
                            [outgoing_edges EXCEPT ![from_node_key] = r1.el.outgoing,
                                                   ![to_node_key] = r2.el.outgoing]
                     /\ incoming_edges' =
                            [incoming_edges EXCEPT ![from_node_key] = r1.el.incoming,
                                                   ![to_node_key] = r2.el.incoming]

----------------------------------------------------------------------------
\* DirectedGraph.find_paths and DirectedGraph.dump

\* The root_nodes loop: nodes without incoming edges, in dict order.
RootNodes == SelectSeq(nodes, LAMBDA n : ~HasIncomingEdges(n))

\* The "for prev_node in current_path" loop: every node of the path other
\* than current_node gains current_node as a dependency.
RecordDependencies(D, current_path, current_node) ==
    [n \in NodeNames |->
        IF InList(current_path, n) /\ n # current_node
        THEN D[n] \cup {current_node}
        ELSE D[n]]

\* Faulty variant: only the first outgoing edge is followed.
PushFirstOnly(current_node, current_path) ==
    << [node |-> outgoing_edges[current_node][1].to_node, path |-> current_path] >>

\* The stack frames pushed for the outgoing edges of a node: the target and
\* a copy of the current path.
PushFrames(current_node, current_path) ==
    [i \in 1 .. Len(outgoing_edges[current_node]) |->
        [node |-> outgoing_edges[current_node][i].to_node, path |-> current_path]]

\* The while loop over node_stack, for one root.
RECURSIVE Walk(_, _, _)
Walk(node_stack, acc, D) ==
    IF node_stack = << >>
    THEN [cycle |-> FALSE, paths |-> acc, deps |-> D]
    ELSE LET top == node_stack[Len(node_stack)]
             rest == SubSeq(node_stack, 1, Len(node_stack) - 1)
             current_node == top.node
             current_path == Append(top.path, current_node)
             D1 == RecordDependencies(D, current_path, current_node)
             out == outgoing_edges[current_node]
         IN  IF Len(out) = 0
             THEN Walk(rest, Append(acc, current_path), D1)
             ELSE IF \E i \in DOMAIN out : InList(current_path, out[i].to_node)
             THEN [cycle |-> TRUE, paths |-> acc, deps |-> D1]
             ELSE Walk(rest \o PushFrames(current_node, current_path), acc, D1)

\* The "for node in root_nodes" loop.
RECURSIVE WalkRoots(_, _, _)
WalkRoots(roots, acc, D) ==
    IF roots = << >>
    THEN [cycle |-> FALSE, paths |-> acc, deps |-> D]
    ELSE LET r == Walk(<< [node |-> Head(roots), path |-> << >>] >>, acc, D)
         IN  IF r.cycle THEN r ELSE WalkRoots(Tail(roots), r.paths, r.deps)

\* find_paths called at call-stack depth `depth` with dependency sets D and
\* memo P.  The result carries the outcome, the returned list, the memo and
\* the dependency sets the call leaves behind, and the counts of traversals
\* started and reports printed.
RECURSIVE FindPathsCall(_, _, _)

\* dump: calls find_paths, then prints the report.
DumpCall(depth, D, P) ==
    IF depth > RecursionLimit
    THEN [status |-> "RecursionError", ret |-> << >>, paths |-> P, deps |-> D,
          traversals |-> 0, dumps |-> 0]
    ELSE LET f == FindPathsCall(depth + 1, D, P)
         IN  IF f.status = "ok"
             THEN [f EXCEPT !.ret = << >>, !.dumps = @ + 1]
             ELSE f

FindPathsCall(depth, D, P) ==
    IF depth > RecursionLimit
    THEN [status |-> "RecursionError", ret |-> << >>, paths |-> P, deps |-> D,
          traversals |-> 0, dumps |-> 0]
    ELSE IF ~cache_dirty
    THEN [status |-> "ok", ret |-> P, paths |-> P, deps |-> D,
          traversals |-> 0, dumps |-> 0]
    ELSE LET r == WalkRoots(RootNodes, << >>, D)
         IN  IF ~r.cycle
             THEN [status |-> "ok", ret |-> r.paths, paths |-> r.paths,
                   deps |-> r.deps, traversals |-> 1, dumps |-> 0]
             ELSE LET d == DumpCall(depth + 1, r.deps, P)
                  IN  [status |-> IF d.status = "ok" THEN "CycleDetected"
                                  ELSE d.status,
                       ret |-> << >>, paths |-> d.paths, deps |-> d.deps,
                       traversals |-> d.traversals + 1, dumps |-> d.dumps]

FindPaths ==
    \E f \in { FindPathsCall(1, depends_on, paths) } :
        /\ op' = "find_paths"
        /\ status' = f.status
        /\ ret' = f.ret
        /\ paths' = f.paths
        /\ depends_on' = f.deps
        /\ traversals' = f.traversals
        /\ dumps' = f.dumps
        /\ UNCHANGED << nodes, edges, outgoing_edges, incoming_edges, cache_dirty >>

----------------------------------------------------------------------------
\* DirectedGraph.create_plan

\* The scan "for i in range(len(nodes))": index_of_node is the last index
\* holding node (the value of the previous iteration when there is none).
IndexOfNode(list, node, previous) ==
    LET S == { i \in 0 .. Len(list) - 1 : list[i + 1] = node }
    IN  IF S = {} THEN previous ELSE Max(S)

\* highest_idx: starts at 0, raised to every larger index whose node this
\* node is "less than".
HighestIdx(D, list, node) ==
    Max({0} \cup { i \in 0 .. Len(list) - 1 : NodeLt(D, node, list[i + 1]) })

\* Faulty variant: the node is inserted and its old entry is kept.
RelocateNoRemove(list, node, highest_idx, index_of_node) ==
    IF highest_idx + 1 > index_of_node
    THEN ListInsert(list, highest_idx + 1, node)
    ELSE list

\* Faulty variant: the node is inserted before its highest dependency.
RelocateBefore(list, node, highest_idx, index_of_node) ==
    IF highest_idx + 1 > index_of_node
    THEN ListRemove(ListInsert(list, highest_idx, node), node)
    ELSE list

\* The relocation at the end of one iteration: insert after the highest
\* dependency, then remove the first (old) occurrence.
Relocate(list, node, highest_idx, index_of_node) ==
    IF highest_idx + 1 > index_of_node
    THEN ListRemove(ListInsert(list, highest_idx + 1, node), node)
    ELSE list

\* The loop "for node in nodes_to_insert" over the snapshot, on the live
\* list.  moved records, per snapshot node, whether the list changed.
RECURSIVE PlanLoop(_, _, _, _, _)
PlanLoop(D, list, nodes_to_insert, index_of_node, moved) ==
    IF nodes_to_insert = << >>
    THEN [nodes |-> list, moved |-> moved]
    ELSE LET node == Head(nodes_to_insert)
             idx == IndexOfNode(list, node, index_of_node)
             highest_idx == HighestIdx(D, list, node)
             next == Relocate(list, node, highest_idx, idx)
         IN  PlanLoop(D, next, Tail(nodes_to_insert), idx,
                      Append(moved, next # list))

CreatePlan ==
    \E f \in { FindPathsCall(2, depends_on, paths) } :
        /\ op' = "create_plan"
        /\ status' = f.status
        /\ paths' = f.paths
        /\ depends_on' = f.deps
        /\ traversals' = f.traversals
        /\ dumps' = f.dumps
        /\ ret' = IF f.status = "ok"
                  THEN PlanLoop(f.deps, nodes, nodes, -1, << >>).nodes
                  ELSE << >>
        /\ UNCHANGED << nodes, edges, outgoing_edges, incoming_edges, cache_dirty >>

----------------------------------------------------------------------------

\* The callers.  A new node takes the next unused name, or add_node is
\* called again with a name in use (the first: which one makes no difference
\* to the dict lookup).  An edge is asked for between any two distinct names,
\* in use or not, or from a name to itself.
CallAddNode(max_nodes) ==
    \E name \in {1, Len(nodes) + 1} \cap 1 .. max_nodes : AddNode(name)

CallAddEdge(max_nodes, max_edges) ==
    \E f \in 1 .. max_nodes, t \in 1 .. max_nodes :
        /\ f = t => f = 1
        /\ AddEdge(f, t)
        /\ status' = "ok" => EdgeCount < max_edges

Next ==
    \/ CallAddNode(MaxNodes)
    \/ CallAddEdge(MaxNodes, MaxEdges)
    \/ FindPaths
    \/ CreatePlan

Init == InitGraph(MaxNodes)

Spec == Init /\ [][Next]_vars

\* The graph is built first and queried afterwards.
Building == op \notin {"find_paths", "create_plan"}

NextBuilt ==
    \/ Building /\ CallAddNode(BuiltNodes)
    \/ Building /\ CallAddEdge(BuiltNodes, BuiltEdges)
    \/ FindPaths
    \/ CreatePlan

InitBuilt == InitGraph(BuiltNodes)

SpecBuilt == InitBuilt /\ [][NextBuilt]_vars

----------------------------------------------------------------------------
\* Vocabulary of the properties: the graph as a set of directed edges.

NodeSet == SeqToSet(nodes)

\* add_edge(u, v) registered the edge from u to v.
HasEdgeTo(u, v) ==
    \E i \in DOMAIN outgoing_edges[u] : outgoing_edges[u][i].to_node = v

EdgeSet == { e \in NodeNames \X NodeNames : HasEdgeTo(e[1], e[2]) }

Successors(S) == { v \in NodeNames : \E u \in S : HasEdgeTo(u, v) }

RECURSIVE Closure(_, _)
Closure(S, k) == IF k = 0 THEN S ELSE Closure(S \cup Successors(S), k - 1)

\* The nodes reachable from n by following one or more edges forward.
Reachable(n) == Closure(Successors({n}), Cardinality(NodeNames))

HasCycle == \E n \in NodeSet : n \in Reachable(n)

Acyclic == ~HasCycle

Connected(a, b) == HasEdgeTo(a, b) \/ HasEdgeTo(b, a)

\* Position of x in the list s.
IndexIn(s, x) == CHOOSE i \in DOMAIN s : s[i] = x

\* A maximal path: from a node without incoming edges, along edges, to a
\* node without outgoing edges.
IsMaximalPath(p) ==
    /\ \A u \in NodeNames : ~HasEdgeTo(u, p[1])
    /\ \A i \in 1 .. Len(p) - 1 : HasEdgeTo(p[i], p[i + 1])
    /\ \A v \in NodeNames : ~HasEdgeTo(p[Len(p)], v)

MaximalPaths ==
    { p \in UNION { [1 .. k -> NodeSet] : k \in 1 .. Len(nodes) } :
        IsMaximalPath(p) }

Returned(call) == op = call /\ status = "ok"

----------------------------------------------------------------------------
C2_CycleAlwaysDetected ==
    HasCycle =>
        /\ op = "find_paths" => status = "CycleDetected"
        /\ op = "create_plan" => status # "ok"

\* C3: whenever find_paths() returns, every node's dependency set is exactly
\* the set of nodes reachable from it, and never holds the node itself.
C3_DependenciesAreReachableSet ==
    Returned("find_paths") =>
        \A n \in NodeSet : depends_on[n] = Reachable(n) /\ n \notin depends_on[n]

\* C4: the list create_plan() returns is a permutation of the graph's nodes:
\* same length, every node exactly once, nothing else.
C4_PlanIsPermutation ==
    Returned("create_plan") =>
        /\ Len(ret) = Len(nodes)
        /\ SeqToSet(ret) = NodeSet
        /\ \A n \in NodeSet : Cardinality({ i \in DOMAIN ret : ret[i] = n }) = 1

\* A plan of three or more nodes in which the loop moved a node.
C4_Witness ==
    /\ Returned("create_plan")
    /\ Len(nodes) >= 3
    /\ \E i \in DOMAIN nodes : ret[i] # nodes[i]

\* C5: on an acyclic graph find_paths() returns exactly the maximal paths,
\* each once, and returns the empty list only for the graph without nodes.
C5_PathsAreTheMaximalPaths ==
    (Returned("find_paths") /\ Acyclic) =>
        /\ SeqToSet(ret) = MaximalPaths
        /\ Cardinality(SeqToSet(ret)) = Len(ret)
        /\ (ret = << >>) <=> (nodes = << >>)

\* Several maximal paths, one of them through three nodes.
C5_Witness ==
    /\ Returned("find_paths") /\ Acyclic
    /\ Len(ret) >= 2
    /\ \E i \in DOMAIN ret : Len(ret[i]) >= 3

\* The step is a call rejected with DuplicateRelation that left every edge
\* list as it was.
RejectedDuplicate ==
    /\ op' = "add_edge"
    /\ status' = "DuplicateRelation"
    /\ edges' = edges
    /\ outgoing_edges' = outgoing_edges
    /\ incoming_edges' = incoming_edges

\* C6: add_edge between two nodes that an earlier add_edge connected, in
\* either direction, fails with DuplicateRelation and leaves every edge list
\* as it was; stated by contraposition: a step that is no such rejection is
\* not an add_edge call on a connected pair.
C6_DuplicateRelationRejected ==
    [][~RejectedDuplicate =>
          \A f \in NodeNames, t \in NodeNames :
              ~(Connected(f, t) /\ AddEdge(f, t))]_vars

\* A rejected duplicate on a graph that holds edges.
C6_Witness ==
    /\ op = "add_edge" /\ status = "DuplicateRelation"
    /\ EdgeSet # {}

\* The list a traversal of the graph alone yields: no memo, no dependency
\* sets left by earlier calls.
PathsOfGraph == WalkRoots(RootNodes, << >>, [n \in NodeNames |-> {}]).paths

\* C7: on an acyclic graph the list find_paths() returns is that of the graph
\* as it stands at the call (Acyclic and PathsOfGraph are read in the state
\* the call is made in), whatever memo and dependency sets earlier calls left; a call
\* that follows a successful find_paths() returns the same list and leaves
\* the dependency sets alone; a call that follows a successful add_node or
\* add_edge does not return the list memoized before it.
C7_FindPathsOfCurrentGraph ==
    [][(op' = "find_paths" /\ status' = "ok" /\ Acyclic) =>
          /\ ret' = PathsOfGraph
          /\ Returned("find_paths") =>
                 (ret' = ret /\ depends_on' = depends_on)
          /\ (op \in {"add_node", "add_edge"} /\ status = "ok") =>
                 ret' # paths]_vars

\* find_paths() has returned the paths of a graph with two edges or more.
C7_Witness ==
    /\ Returned("find_paths") /\ Acyclic
    /\ Cardinality(EdgeSet) >= 2
    /\ ret = paths /\ ret # << >>

\* C8: a find_paths() call that reaches a cycle prints the dump once and
\* fails with CycleDetected, after a single traversal.
C8_CycleFailureDumpsOnce ==
    (op = "find_paths" /\ status # "ok") =>
        (status = "CycleDetected" /\ dumps = 1 /\ traversals = 1)

\* C9: in the list create_plan() returns for an acyclic graph every node
\* stands at a strictly larger index than every node of its dependency set.
C9_DependentsAfterDependencies ==
    (Returned("create_plan") /\ Acyclic) =>
        \A a \in NodeSet : \A b \in depends_on[a] :
            IndexIn(ret, a) > IndexIn(ret, b)

\* The loop relocated a node and later relocated one of its dependencies.
C9_Witness ==
    /\ Returned("create_plan") /\ Acyclic
    /\ LET moved == PlanLoop(depends_on, nodes, nodes, -1, << >>).moved
       IN  \E i \in DOMAIN nodes, j \in DOMAIN nodes :
               /\ i < j
               /\ nodes[j] \in depends_on[nodes[i]]
               /\ moved[i] /\ moved[j]

\* C10: in every state u holds an outgoing edge to v exactly when v holds
\* the incoming edge from u, each node's edge list is its outgoing and
\* incoming edges, and no two edges join the same unordered pair.
C10_RegistrationSymmetricUnique ==
    /\ \A u \in NodeNames, v \in NodeNames :
          InList(outgoing_edges[u], Edge(u, v))
              <=> InList(incoming_edges[v], Edge(u, v))
    /\ \A n \in NodeNames :
          /\ \A i \in DOMAIN outgoing_edges[n] : outgoing_edges[n][i].from_node = n
          /\ \A i \in DOMAIN incoming_edges[n] : incoming_edges[n][i].to_node = n
          /\ SeqToSet(edges[n])
                 = SeqToSet(outgoing_edges[n]) \cup SeqToSet(incoming_edges[n])
          /\ \A m \in NodeNames :
                Cardinality({ i \in DOMAIN edges[n] :
                    {edges[n][i].from_node, edges[n][i].to_node} = {n, m} }) <= 1

\* A failed add_edge on a graph that holds edges.
C10_Witness ==
    /\ op = "add_edge" /\ status \in {"UnknownNode", "DuplicateRelation", "SelfLoop"}
    /\ Cardinality(EdgeSet) >= 2

====
